---- MODULE Spec2Model ----
(***************************************************************************)
(* One-time login codes of the timesheet app: the in-memory code store     *)
(* (createLoginCode / verifyLoginCode) and the two route handlers that     *)
(* call it (POST /api/auth/request-code, POST /api/auth/verify-code).      *)
(*                                                                         *)
(* Strings are sequences of one-character strings, so that trim,           *)
(* toLowerCase, includes and Number.toString are computed, not assumed.    *)
(***************************************************************************)
EXTENDS Integers, Sequences, FiniteSets

(***************************************************************************)
(* Bounds of the model                                                     *)
(***************************************************************************)
\* the clock runs over MaxEpochs lifetimes of a code
MaxEpochs == 1
\* mismatched verify calls counted per identity since its last issue
MaxWrong == 6

(***************************************************************************)
(* Program constants                                                       *)
(***************************************************************************)
\* 10 * 60 * 1000 milliseconds
TTL_MS == 600000
\* attemptsLeft of a fresh entry
MaxAttempts == 5
\* Math.floor(100000 + Math.random() * 900000)
CodeBase == 100000
CodeSpan == 900000

(***************************************************************************)
(* Strings                                                                 *)
(***************************************************************************)
WhiteSpace == {" ", "\t", "\n"}

UpperToLower == [c \in {"A", "B", "X"} |-> CASE c = "A" -> "a" [] c = "B" -> "b" [] c = "X" -> "x"]

ToLowerChar(c) == IF c \in DOMAIN UpperToLower THEN UpperToLower[c] ELSE c

\* String.prototype.toLowerCase
ToLowerCase(s) == [i \in 1..Len(s) |-> ToLowerChar(s[i])]

RECURSIVE TrimStart(_)
TrimStart(s) == IF s # <<>> /\ Head(s) \in WhiteSpace THEN TrimStart(Tail(s)) ELSE s

RECURSIVE TrimEnd(_)
TrimEnd(s) ==
    IF s # <<>> /\ s[Len(s)] \in WhiteSpace THEN TrimEnd(SubSeq(s, 1, Len(s) - 1)) ELSE s

\* String.prototype.trim
Trim(s) == TrimEnd(TrimStart(s))

\* String.prototype.includes, for a one-character needle
Includes(s, c) == \E i \in 1..Len(s) : s[i] = c

DigitChars == <<"0", "1", "2", "3", "4", "5", "6", "7", "8", "9">>

\* Number.prototype.toString of a non-negative integer
RECURSIVE NumberToString(_)
NumberToString(n) ==
    IF n < 10 THEN <<DigitChars[n + 1]>>
    ELSE NumberToString(n \div 10) \o <<DigitChars[(n % 10) + 1]>>

(***************************************************************************)
(* Map<string, LoginCodeEntry>: a set of key/value pairs                   *)
(***************************************************************************)
Undefined == [undefined |-> TRUE]

MapHas(m, k) == \E p \in m : p.key = k

MapGet(m, k) == IF MapHas(m, k) THEN (CHOOSE p \in m : p.key = k).value ELSE Undefined

MapDelete(m, k) == {p \in m : p.key # k}

MapSet(m, k, v) == {p \in m : p.key # k} \cup {[key |-> k, value |-> v]}

(***************************************************************************)
(* lib/loginCodes                                                          *)
(***************************************************************************)
\* normalizeEmail that trims and keeps the letter case
normalizeEmail_TrimsOnly(email) == Trim(email)

normalizeEmail(email) == ToLowerCase(Trim(email))

\* sha256 hex digest: deterministic and free of collisions on the codes of
\* the model; the digest is a value of another type than the plaintext
hashCode(code) == [sha256 |-> code]

\* the values Math.floor(Math.random() * 900000) is drawn from: both ends
RandomOffsets == {0, CodeSpan - 1}

\* createLoginCode that keeps an entry the identity already has
createLoginCode_KeepsExisting(m, email, r, t) ==
    LET normalized == normalizeEmail(email)
        code == NumberToString(CodeBase + r)
    IN  [code |-> code,
         loginCodes |-> IF MapHas(m, normalized) THEN m
                        ELSE MapSet(m, normalized,
                                    [codeHash |-> hashCode(code),
                                     expiresAt |-> t + TTL_MS,
                                     attemptsLeft |-> MaxAttempts])]

\* createLoginCode that stores under the email as passed, not as normalized
createLoginCode_RawKey(m, email, r, t) ==
    LET code == NumberToString(CodeBase + r)
    IN  [code |-> code,
         loginCodes |-> MapSet(m, email,
                               [codeHash |-> hashCode(code),
                                expiresAt |-> t + TTL_MS,
                                attemptsLeft |-> MaxAttempts])]

\* createLoginCode that grants one attempt less
createLoginCode_FourAttempts(m, email, r, t) ==
    LET code == NumberToString(CodeBase + r)
    IN  [code |-> code,
         loginCodes |-> MapSet(m, normalizeEmail(email),
                               [codeHash |-> hashCode(code),
                                expiresAt |-> t + TTL_MS,
                                attemptsLeft |-> MaxAttempts - 1])]

\* createLoginCode that starts from an empty Map
createLoginCode_ClearsStore(m, email, r, t) ==
    LET code == NumberToString(CodeBase + r)
    IN  [code |-> code,
         loginCodes |-> MapSet({}, normalizeEmail(email),
                               [codeHash |-> hashCode(code),
                                expiresAt |-> t + TTL_MS,
                                attemptsLeft |-> MaxAttempts])]

\* createLoginCode whose entry lives a millisecond less
createLoginCode_ShortLife(m, email, r, t) ==
    LET code == NumberToString(CodeBase + r)
    IN  [code |-> code,
         loginCodes |-> MapSet(m, normalizeEmail(email),
                               [codeHash |-> hashCode(code),
                                expiresAt |-> t + TTL_MS - 1,
                                attemptsLeft |-> MaxAttempts])]

\* createLoginCode(email) at time t, with r = Math.floor(Math.random() * 900000)
createLoginCode(m, email, r, t) ==
    LET normalized == normalizeEmail(email)
        code == NumberToString(CodeBase + r)
        codeHash == hashCode(code)
        expiresAt == t + TTL_MS
    IN  [code |-> code,
         loginCodes |-> MapSet(m, normalized,
                               [codeHash |-> codeHash,
                                expiresAt |-> expiresAt,
                                attemptsLeft |-> MaxAttempts])]

\* variants of verifyLoginCode, each with one slip
VerifyWith(m, email, code, t, expiredAt, exhaustedAt, exhaustedFirst,
           exhaustedResult, purgeExhausted, persist, consume) ==
    LET normalized == normalizeEmail(email)
        entry == MapGet(m, normalized)
        isExpired == IF expiredAt = "at" THEN t >= entry.expiresAt
                     ELSE t > entry.expiresAt
        isExhausted == IF exhaustedAt = "below" THEN entry.attemptsLeft < 0
                       ELSE entry.attemptsLeft <= 0
        exhausted == [result |-> exhaustedResult,
                      loginCodes |-> IF purgeExhausted THEN MapDelete(m, normalized)
                                     ELSE m,
                      compared |-> FALSE]
    IN  IF entry = Undefined
        THEN [result |-> "invalid", loginCodes |-> m, compared |-> FALSE]
        ELSE IF exhaustedFirst /\ isExhausted
        THEN exhausted
        ELSE IF isExpired
        THEN [result |-> "expired", loginCodes |-> MapDelete(m, normalized),
              compared |-> FALSE]
        ELSE IF isExhausted
        THEN exhausted
        ELSE IF ~(entry.codeHash = hashCode(code))
        THEN [result |-> "invalid",
              loginCodes |-> IF persist
                             THEN MapSet(m, normalized,
                                         [entry EXCEPT !.attemptsLeft = @ - 1])
                             ELSE m,
              compared |-> TRUE]
        ELSE [result |-> "ok",
              loginCodes |-> IF consume = "normalized" THEN MapDelete(m, normalized)
                             ELSE IF consume = "raw" THEN MapDelete(m, email)
                             ELSE m,
              compared |-> TRUE]

\* expires at the expiry instant itself
verifyLoginCode_ExpiresEarly(m, email, code, t) ==
    VerifyWith(m, email, code, t, "at", "zero", FALSE, "invalid", TRUE, TRUE,
               "normalized")

\* leaves the entry in the store on success
verifyLoginCode_KeepsOnSuccess(m, email, code, t) ==
    VerifyWith(m, email, code, t, "after", "zero", FALSE, "invalid", TRUE, TRUE,
               "none")

\* allows one attempt more
verifyLoginCode_OneMoreAttempt(m, email, code, t) ==
    VerifyWith(m, email, code, t, "after", "below", FALSE, "invalid", TRUE, TRUE,
               "normalized")

\* checks the attempts before the expiry
verifyLoginCode_AttemptsFirst(m, email, code, t) ==
    VerifyWith(m, email, code, t, "after", "zero", TRUE, "invalid", TRUE, TRUE,
               "normalized")

\* reports an exhausted entry as expired
verifyLoginCode_ExhaustedSaysExpired(m, email, code, t) ==
    VerifyWith(m, email, code, t, "after", "zero", FALSE, "expired", TRUE, TRUE,
               "normalized")

\* leaves an exhausted entry in the store
verifyLoginCode_ExhaustedLingers(m, email, code, t) ==
    VerifyWith(m, email, code, t, "after", "zero", FALSE, "invalid", FALSE, TRUE,
               "normalized")

\* decrements a copy of the entry and does not store it
verifyLoginCode_LosesDecrement(m, email, code, t) ==
    VerifyWith(m, email, code, t, "after", "zero", FALSE, "invalid", TRUE, FALSE,
               "normalized")

\* deletes under the email as passed, not as normalized
verifyLoginCode_DeletesRawKey(m, email, code, t) ==
    VerifyWith(m, email, code, t, "after", "zero", FALSE, "invalid", TRUE, TRUE,
               "raw")

\* remembers an identity it was asked about: stores a spent entry for it
verifyLoginCode_RecordsUnknown(m, email, code, t) ==
    IF MapGet(m, normalizeEmail(email)) = Undefined
    THEN [result |-> "invalid",
          loginCodes |-> MapSet(m, normalizeEmail(email),
                                [codeHash |-> hashCode(code), expiresAt |-> t,
                                 attemptsLeft |-> 0]),
          compared |-> FALSE]
    ELSE VerifyWith(m, email, code, t, "after", "zero", FALSE, "invalid", TRUE, TRUE,
                    "normalized")

\* reports an expired entry and leaves it in the store
verifyLoginCode_ExpiredLingers(m, email, code, t) ==
    LET v == VerifyWith(m, email, code, t, "after", "zero", FALSE, "invalid", TRUE,
                        TRUE, "normalized")
    IN  IF v.result = "expired" THEN [v EXCEPT !.loginCodes = m] ELSE v

\* a mismatch restarts the ten minutes of the entry
verifyLoginCode_RenewsOnMiss(m, email, code, t) ==
    LET v == VerifyWith(m, email, code, t, "after", "zero", FALSE, "invalid", TRUE,
                        TRUE, "normalized")
        normalized == normalizeEmail(email)
    IN  IF v.compared /\ v.result = "invalid"
        THEN [v EXCEPT !.loginCodes =
                 MapSet(m, normalized,
                        [MapGet(v.loginCodes, normalized) EXCEPT !.expiresAt = t + TTL_MS])]
        ELSE v

\* reports an expired entry and keeps it, spent, in the store
verifyLoginCode_ExpiredStaysSpent(m, email, code, t) ==
    LET v == VerifyWith(m, email, code, t, "after", "zero", FALSE, "invalid", TRUE,
                        TRUE, "normalized")
        normalized == normalizeEmail(email)
    IN  IF v.result = "expired"
        THEN [v EXCEPT !.loginCodes =
                 MapSet(m, normalized,
                        [MapGet(m, normalized) EXCEPT !.attemptsLeft = 0])]
        ELSE v

\* verifyLoginCode(email, code) at time t.  `compared` tells whether line 138
\* (the digest comparison) was reached.
verifyLoginCode(m, email, code, t) ==
    LET normalized == normalizeEmail(email)
        entry == MapGet(m, normalized)
    IN  IF entry = Undefined
        THEN [result |-> "invalid", loginCodes |-> m, compared |-> FALSE]
        ELSE IF t > entry.expiresAt
        THEN [result |-> "expired", loginCodes |-> MapDelete(m, normalized),
              compared |-> FALSE]
        ELSE IF entry.attemptsLeft <= 0
        THEN [result |-> "invalid", loginCodes |-> MapDelete(m, normalized),
              compared |-> FALSE]
        ELSE IF ~(entry.codeHash = hashCode(code))
        THEN [result |-> "invalid",
              loginCodes |-> MapSet(m, normalized,
                                    [entry EXCEPT !.attemptsLeft = @ - 1]),
              compared |-> TRUE]
        ELSE [result |-> "ok", loginCodes |-> MapDelete(m, normalized),
              compared |-> TRUE]

(***************************************************************************)
(* Inputs                                                                  *)
(***************************************************************************)
\* one address in two spellings
SubjectEmails == { <<"a", "@", "x">>, <<" ", "A", "@", "X", "\t">> }

\* and another address
RawEmails == SubjectEmails \cup { <<"b", "@", "x">> }

Keys == {normalizeEmail(e) : e \in RawEmails}

IssuableCodes == {NumberToString(CodeBase + r) : r \in RandomOffsets}

\* codes a caller supplies: every code that can be issued, and one that cannot
SuppliedCodes == IssuableCodes \cup { <<"0", "0", "0", "0", "0", "0">> }

(***************************************************************************)
(* The routes' surroundings                                                *)
(***************************************************************************)
\* an optional value: <<>> is undefined, <<v>> is v
None == <<>>
Some(v) == <<v>>

\* process.env as the request-code route reads it
CompleteEnv ==
    [SMTP_HOST |-> Some("smtp"), SMTP_USER |-> Some("user"),
     SMTP_PASS |-> Some("pass"), FROM_EMAIL |-> None]

Envs == {CompleteEnv, [CompleteEnv EXCEPT !.SMTP_HOST = None]}

\* const FROM_EMAIL = process.env.FROM_EMAIL || SMTP_USER
FromEmail(e) == IF e.FROM_EMAIL # None THEN e.FROM_EMAIL ELSE e.SMTP_USER

\* !SMTP_HOST || !SMTP_USER || !SMTP_PASS || !FROM_EMAIL
SmtpIncomplete(e) ==
    e.SMTP_HOST = None \/ e.SMTP_USER = None \/ e.SMTP_PASS = None \/ FromEmail(e) = None

\* rows of the User table
Users ==
    { [email |-> <<"a", "@", "x">>, active |-> TRUE, canSubmitTimesheet |-> TRUE],
      [email |-> <<"b", "@", "x">>, active |-> FALSE, canSubmitTimesheet |-> TRUE],
      [email |-> <<"c", "@", "x">>, active |-> TRUE, canSubmitTimesheet |-> FALSE] }

\* prisma.user.findUnique({ where: { email } })
FindUnique(email) ==
    IF \E u \in Users : u.email = email
    THEN Some(CHOOSE u \in Users : u.email = email)
    ELSE None

\* request bodies: req.json() throws, or yields an object
InvalidJson == [json |-> FALSE]

\* the body is the JSON text null: req.json() yields null
NullJson == [json |-> TRUE, null |-> TRUE]

RequestBodies ==
    {InvalidJson, NullJson} \cup
    {[json |-> TRUE, email |-> e] :
        e \in {None, Some(<<" ", "A", "@", "X", "\t">>), Some(<<"b", "@", "x">>),
               Some(<<"c", "@", "x">>), Some(<<"d", "@", "x">>), Some(<<"a", "x">>),
               Some(<<" ">>)}}

\* what the mail transport does with a message handed to it
Transports == {"accepts", "rejects"}

VerifyBodies ==
    {InvalidJson, NullJson} \cup
    {[json |-> TRUE, email |-> e, code |-> c] :
        e \in {None, Some(<<" ">>), Some(<<" ", "A", "@", "X", "\t">>)},
        c \in {None, Some(<<" ">>)} \cup {Some(x) : x \in SuppliedCodes}
                \cup {Some(<<" ">> \o x \o <<"\n">>) : x \in IssuableCodes}}

Handlers == {"h1", "h2"}

(***************************************************************************)
(* State                                                                   *)
(***************************************************************************)
VARIABLES
    loginCodes,   \* the module-level Map
    now,          \* Date.now()
    last,         \* the most recent call of the store: arguments, entry found, result
    track,        \* per normalized identity: what happened since its last issue,
                  \* and how the callers spelled the identity
    env,          \* process.env
    handlers,     \* the route handlers in flight: where each one awaits
    resp          \* the most recent response of a route, and the mails its
                  \* handler handed to the transport

storeVars == <<loginCodes, last, track>>
httpVars == <<env, handlers, resp>>
vars == <<loginCodes, now, last, track, env, handlers, resp>>

NoTrack ==
    [issued |-> <<>>, issuedAs |-> <<>>, verifiedAs |-> <<>>, issuedAt |-> 0,
     untouched |-> FALSE, superseded |-> {}, wrong |-> 0, compared |-> 0,
     accepts |-> 0, expired |-> 0]

Idle == [pc |-> "idle", email |-> <<>>]

InitStore ==
    /\ loginCodes = {}
    /\ now = 0
    /\ last = [op |-> "none", key |-> <<>>, code |-> <<>>, result |-> "none",
               found |-> Undefined, when |-> "none", compared |-> FALSE]
    /\ track = [k \in Keys |-> NoTrack]
    /\ handlers = [h \in Handlers |-> Idle]
    /\ resp = [route |-> "none", status |-> 0, message |-> "", sent |-> <<>>,
               during |-> {}]

Init ==
    /\ InitStore
    /\ env = CompleteEnv

(***************************************************************************)
(* Calls of the store                                                      *)
(***************************************************************************)
\* the time t of a call against the expiresAt of the entry it finds for k
When(m, k, t) ==
    IF ~MapHas(m, k) THEN "none"
    ELSE IF t < MapGet(m, k).expiresAt THEN "before"
    ELSE IF t = MapGet(m, k).expiresAt THEN "at"
    ELSE "after"

\* createLoginCode(email) runs to completion at time now
StoreCreate(email, r) ==
    LET k == normalizeEmail(email)
        out == createLoginCode(loginCodes, email, r, now)
    IN  /\ loginCodes' = out.loginCodes
        /\ last' = [op |-> "create", key |-> k, code |-> out.code, result |-> "code",
                    found |-> MapGet(loginCodes, k), when |-> When(loginCodes, k, now),
                    compared |-> FALSE]

\* verifyLoginCode(email, code) runs to completion at time now
StoreVerify(email, code) ==
    LET k == normalizeEmail(email)
        out == verifyLoginCode(loginCodes, email, code, now)
    IN  /\ loginCodes' = out.loginCodes
        /\ last' = [op |-> "verify", key |-> k, code |-> code, result |-> out.result,
                    found |-> MapGet(loginCodes, k), when |-> When(loginCodes, k, now),
                    compared |-> out.compared]

\* history of an identity, restarted by each issue
TrackCreate(email, r) ==
    LET k == normalizeEmail(email)
        out == createLoginCode(loginCodes, email, r, now)
    IN  track' = [track EXCEPT ![k] =
                     [issued |-> out.code, issuedAs |-> email, verifiedAs |-> <<>>,
                      issuedAt |-> now, untouched |-> TRUE,
                      superseded |-> IF @.issued = <<>> THEN {}
                                     ELSE @.superseded \cup {@.issued},
                      wrong |-> 0, compared |-> 0, accepts |-> 0, expired |-> 0]]

TrackVerify(email, code) ==
    LET k == normalizeEmail(email)
        out == verifyLoginCode(loginCodes, email, code, now)
        mismatch == code # track[k].issued
    IN  /\ mismatch => track[k].wrong < MaxWrong
        /\ track' = [track EXCEPT ![k] =
                        [@ EXCEPT !.untouched = FALSE,
                                  !.verifiedAs = email,
                                  !.wrong = IF mismatch THEN @ + 1 ELSE @,
                                  !.compared = IF out.compared /\ out.result # "ok"
                                               THEN @ + 1 ELSE @,
                                  !.accepts = IF out.result = "ok" THEN @ + 1 ELSE @,
                                  !.expired = IF out.result = "expired" THEN @ + 1
                                              ELSE @]]

\* of the history, only the last issue and the mismatches compared since
CountCreate(email, r) ==
    LET k == normalizeEmail(email)
        out == createLoginCode(loginCodes, email, r, now)
    IN  track' = [track EXCEPT ![k] =
                     [@ EXCEPT !.issued = out.code, !.issuedAt = now, !.compared = 0]]

CountVerify(email, code) ==
    LET k == normalizeEmail(email)
        out == verifyLoginCode(loginCodes, email, code, now)
    IN  track' = [track EXCEPT ![k] =
                     [@ EXCEPT !.compared = IF out.compared /\ out.result # "ok"
                                            THEN @ + 1 ELSE @]]

CallCreate(email, r) ==
    /\ StoreCreate(email, r)
    /\ TrackCreate(email, r)
    /\ UNCHANGED <<now, httpVars>>

CallVerify(email, code) ==
    /\ StoreVerify(email, code)
    /\ TrackVerify(email, code)
    /\ UNCHANGED <<now, httpVars>>

\* the instants the clock shows: the ends of the lifetimes, and a millisecond later
Instants == {e * TTL_MS + d : e \in 0..MaxEpochs, d \in {0, 1}}

\* a clock whose advance sweeps the expired entries out of the store
Tick_Sweeps ==
    /\ \/ now' = now + 1
       \/ now' = now + TTL_MS
    /\ now' \in Instants
    /\ loginCodes' = {p \in loginCodes : now' <= p.value.expiresAt}
    /\ UNCHANGED <<last, track, httpVars>>

\* the clock advances by a millisecond or by the lifetime of a code; nothing
\* in the program runs on a timer
Tick ==
    /\ \/ now' = now + 1
       \/ now' = now + TTL_MS
    /\ now' \in Instants
    /\ UNCHANGED <<storeVars, httpVars>>

\* every call of the store for one address, in any spelling
Next ==
    \/ \E email \in SubjectEmails, r \in RandomOffsets : CallCreate(email, r)
    \/ \E email \in SubjectEmails, code \in SuppliedCodes : CallVerify(email, code)
    \/ Tick

Spec == Init /\ [][Next]_vars

(***************************************************************************)
(* The store with several identities                                       *)
(***************************************************************************)
PairCreate(email, r) ==
    /\ StoreCreate(email, r)
    /\ UNCHANGED <<now, track, httpVars>>

PairVerify(email, code) ==
    /\ StoreVerify(email, code)
    /\ UNCHANGED <<now, track, httpVars>>

PairNext ==
    \/ \E email \in RawEmails, r \in RandomOffsets : PairCreate(email, r)
    \/ \E email \in RawEmails, code \in SuppliedCodes : PairVerify(email, code)
    \/ Tick

PairSpec == Init /\ [][PairNext]_vars

(***************************************************************************)
(* The routes                                                              *)
(***************************************************************************)
InFlight(h) == handlers[h].pc # "idle"

\* the handler h returns a response, having handed the mails `sent` to the
\* transport, during the flight of the handlers that await at the places
\* `during`
Reply(h, route, status, message, sent) ==
    /\ resp' = [route |-> route, status |-> status, message |-> message,
                sent |-> sent,
                during |-> {handlers[g].pc : g \in {g \in Handlers : g # h /\ InFlight(g)}}]
    /\ handlers' = [handlers EXCEPT ![h] = Idle]

Respond(h, route, status, message) == Reply(h, route, status, message, <<>>)

\* the handler h throws and the framework answers for it
Crash(h, route) == Respond(h, route, 500, "Internal Server Error")

\* POST /api/auth/request-code, up to `await req.json()`
RequestStart(h) ==
    /\ handlers[h].pc = "idle"
    /\ IF SmtpIncomplete(env)
       THEN Respond(h, "request-code", 500, "Email configuration error.")
       ELSE /\ handlers' = [handlers EXCEPT ![h].pc = "request:json"]
            /\ UNCHANGED resp
    /\ UNCHANGED <<storeVars, now, env>>

\* ... from the body to `await prisma.user.findUnique`
RequestParsed(h, body) ==
    /\ handlers[h].pc = "request:json"
    /\ IF ~body.json
       THEN Respond(h, "request-code", 400, "Invalid JSON payload.")
       ELSE IF body = NullJson
       THEN \* body.email: TypeError, cannot read properties of null
            Crash(h, "request-code")
       ELSE LET email == IF body.email = None THEN None
                         ELSE Some(ToLowerCase(Trim(body.email[1])))
            IN  IF email = None \/ email[1] = <<>> \/ ~Includes(email[1], "@")
                THEN Respond(h, "request-code", 400, "A valid email is required.")
                ELSE /\ handlers' = [handlers EXCEPT ![h].pc = "request:user",
                                                     ![h].email = email[1]]
                     /\ UNCHANGED resp
    /\ UNCHANGED <<storeVars, now, env>>

NotRegistered ==
    "This email is not registered for the timesheet system. Please contact the administrator."

\* the text of the mail: `Hi ${teacher.name}, ... ${code} ...` names a variable
\* the module does not declare, so evaluating it throws a ReferenceError
MailText(user, code) ==
    [thrown |-> TRUE, error |-> "ReferenceError: teacher is not defined"]

\* variants of the last step of the request-code handler, each with one slip
RequestUserWith(h, r, transport, gated, rollback) ==
    /\ handlers[h].pc = "request:user"
    /\ LET email == handlers[h].email
           user == FindUnique(email)
           out == createLoginCode(loginCodes, email, r, now)
       IN  IF user = None \/ ~user[1].active \/ ~user[1].canSubmitTimesheet
           THEN /\ Respond(h, "request-code", 403, NotRegistered)
                /\ IF gated THEN UNCHANGED storeVars
                   ELSE StoreCreate(email, r) /\ UNCHANGED track
           ELSE /\ last' = [op |-> "create",
                            key |-> normalizeEmail(email), code |-> out.code,
                            result |-> "code",
                            found |-> MapGet(loginCodes, normalizeEmail(email)),
                            when |-> When(loginCodes, normalizeEmail(email), now),
                            compared |-> FALSE]
                /\ CountCreate(email, r)
                /\ LET text == MailText(user[1], out.code)
                       mail == [from |-> FromEmail(env), to |-> email, text |-> text]
                       failed == text.thrown \/ transport = "rejects"
                   IN  /\ loginCodes' = IF failed /\ rollback
                                        THEN MapDelete(out.loginCodes, normalizeEmail(email))
                                        ELSE out.loginCodes
                       /\ IF text.thrown
                          THEN Reply(h, "request-code", 500,
                                     "Failed to send login code email.", <<>>)
                          ELSE IF transport = "rejects"
                          THEN Reply(h, "request-code", 500,
                                     "Failed to send login code email.", <<mail>>)
                          ELSE Reply(h, "request-code", 200, "success", <<mail>>)
    /\ UNCHANGED <<now, env>>

\* calls createLoginCode before it looks at the user
RequestUser_IssuesUnchecked(h, r, transport) ==
    RequestUserWith(h, r, transport, FALSE, FALSE)

\* deletes the entry when the mail could not be sent
RequestUser_RollsBack(h, r, transport) ==
    RequestUserWith(h, r, transport, TRUE, TRUE)

\* ... from the user found to the response.  The argument of sendMail is
\* evaluated before sendMail is called: when building the text throws, the
\* catch block answers and the transport is not reached.
RequestUser(h, r, transport) ==
    /\ handlers[h].pc = "request:user"
    /\ LET email == handlers[h].email
           user == FindUnique(email)
       IN  IF user = None \/ ~user[1].active \/ ~user[1].canSubmitTimesheet
           THEN /\ Respond(h, "request-code", 403, NotRegistered)
                /\ UNCHANGED storeVars
           ELSE /\ StoreCreate(email, r)
                /\ CountCreate(email, r)
                /\ LET code == createLoginCode(loginCodes, email, r, now).code
                       text == MailText(user[1], code)
                       mail == [from |-> FromEmail(env), to |-> email, text |-> text]
                   IN  IF text.thrown
                       THEN Reply(h, "request-code", 500,
                                  "Failed to send login code email.", <<>>)
                       ELSE IF transport = "rejects"
                       THEN Reply(h, "request-code", 500,
                                  "Failed to send login code email.", <<mail>>)
                       ELSE Reply(h, "request-code", 200, "success", <<mail>>)
    /\ UNCHANGED <<now, env>>

\* POST /api/auth/verify-code, up to `await req.json()`
VerifyStart(h) ==
    /\ handlers[h].pc = "idle"
    /\ handlers' = [handlers EXCEPT ![h].pc = "verify:json"]
    /\ UNCHANGED <<storeVars, now, env, resp>>

\* ... from the body to the response
VerifyParsed(h, body) ==
    /\ handlers[h].pc = "verify:json"
    /\ IF ~body.json
       THEN /\ Respond(h, "verify-code", 400, "Invalid JSON payload.")
            /\ UNCHANGED storeVars
       ELSE IF body = NullJson
       THEN \* body.email: TypeError, cannot read properties of null
            /\ Crash(h, "verify-code")
            /\ UNCHANGED storeVars
       ELSE LET email == IF body.email = None THEN None ELSE Some(Trim(body.email[1]))
                code == IF body.code = None THEN None ELSE Some(Trim(body.code[1]))
            IN  IF email = None \/ email[1] = <<>> \/ code = None \/ code[1] = <<>>
                THEN /\ Respond(h, "verify-code", 400, "Email and code are required.")
                     /\ UNCHANGED storeVars
                ELSE LET result == verifyLoginCode(loginCodes, email[1], code[1], now).result
                     IN  /\ StoreVerify(email[1], code[1])
                         /\ CountVerify(email[1], code[1])
                         /\ IF result = "expired"
                            THEN Respond(h, "verify-code", 400,
                                         "This code has expired. Please request a new one.")
                            ELSE IF result = "invalid"
                            THEN Respond(h, "verify-code", 400,
                                         "Invalid code. Please try again.")
                            ELSE Respond(h, "verify-code", 200, "success")
    /\ UNCHANGED <<now, env>>

\* the routes, serving the handlers H requests with the given bodies
RouteNext(H, requestBodies, verifyBodies) ==
    \/ \E h \in H : RequestStart(h)
    \/ \E h \in H, body \in requestBodies : RequestParsed(h, body)
    \/ \E h \in H, r \in RandomOffsets, transport \in Transports :
          RequestUser(h, r, transport)
    \/ \E h \in H : VerifyStart(h)
    \/ \E h \in H, body \in verifyBodies : VerifyParsed(h, body)
    \/ Tick

\* one request at a time, of every shape, under every environment
HttpNext == RouteNext({"h1"}, RequestBodies, VerifyBodies)

HttpInit ==
    /\ InitStore
    /\ env \in Envs

HttpSpec == HttpInit /\ [][HttpNext]_vars

\* well-formed requests for a registered address
WellFormedRequests ==
    {b \in RequestBodies :
        /\ b.json /\ b # NullJson /\ b.email # None
        /\ \E u \in Users : /\ u.email = normalizeEmail(b.email[1])
                            /\ u.active /\ u.canSubmitTimesheet}

WellFormedVerifies ==
    {b \in VerifyBodies :
        /\ b.json /\ b # NullJson
        /\ b.email # None /\ Trim(b.email[1]) # <<>>
        /\ b.code \in {Some(x) : x \in SuppliedCodes}}

\* two requests in flight at a time: every interleaving of the handlers' steps
RaceNext == RouteNext(Handlers, WellFormedRequests, WellFormedVerifies)

RaceSpec == Init /\ [][RaceNext]_vars

(***************************************************************************)
(* Properties of the store                                                 *)
(***************************************************************************)
\* a step that is a call of the store; last' describes the call
CallStep == <<loginCodes, last, track>>' # <<loginCodes, last, track>>

VerifyStep(k) == CallStep /\ last'.op = "verify" /\ last'.key = k

\* the last call was verify for k
Verified(k) == last.op = "verify" /\ last.key = k

\* the last call was made after the expiry instant of the entry it found
FoundExpired == last.found # Undefined /\ last.when = "after"

\* the number of mismatched verify calls for k before the last call
WrongBefore(k) ==
    track[k].wrong - (IF Verified(k) /\ last.code # track[k].issued THEN 1 ELSE 0)

\* C1: issue(identity) followed by verify(identity, returned code), with no
\* other call for the identity in between and no later than 10 minutes after
\* the issue, is accepted, whatever the entry the identity had before.
C1_IssueThenVerifyAccepted ==
    [][\A k \in Keys :
          (/\ VerifyStep(k)
           /\ track[k].untouched
           /\ last'.code = track[k].issued
           /\ now <= track[k].issuedAt + 10 * 60 * 1000)
          => last'.result = "ok"]_vars

\* a re-issued code is accepted at the last instant of its 10 minutes
C1_Witness ==
    \E k \in Keys :
        /\ Verified(k) /\ last.result = "ok"
        /\ track[k].wrong = 0 /\ track[k].superseded # {}
        /\ last.when = "at"
        /\ last.found.expiresAt = track[k].issuedAt + 10 * 60 * 1000

\* C2: a code is accepted at most once per issue: after the accepted verify
\* the identity has no entry, and every later verify for it is rejected until
\* the next issue.
C2_SingleUse ==
    \A k \in Keys :
        /\ track[k].accepts <= 1
        /\ track[k].accepts = 1 =>
              /\ ~MapHas(loginCodes, k)
              /\ Verified(k) => last.result \in {"ok", "invalid"}

\* the accepted code is supplied again and rejected
C2_Witness ==
    \E k \in Keys :
        /\ track[k].accepts = 1
        /\ Verified(k) /\ last.code = track[k].issued /\ last.result = "invalid"

\* C3 as stated: after 5 mismatched verify calls since the last issue no
\* verify is accepted, and one with the correct code is rejected.
C3_AsStated ==
    \A k \in Keys :
        (Verified(k) /\ track[k].issued # <<>> /\ WrongBefore(k) >= 5) =>
            /\ last.result # "ok"
            /\ last.code = track[k].issued => last.result = "invalid"

\* C3: after 5 mismatched verify calls since the last issue no verify is
\* accepted until the next issue; one with the correct code is rejected,
\* except that it is reported expired when the entry is still stored and the
\* call is made after its expiry instant.
C3_NoAcceptAfterFiveWrong ==
    \A k \in Keys :
        (Verified(k) /\ track[k].issued # <<>> /\ WrongBefore(k) >= 5) =>
            /\ last.result # "ok"
            /\ last.code = track[k].issued =>
                  last.result = (IF FoundExpired THEN "expired" ELSE "invalid")

\* the sixth call carries the correct code, before the expiry, and is rejected
C3_Witness ==
    \E k \in Keys :
        /\ Verified(k) /\ WrongBefore(k) = 5
        /\ last.code = track[k].issued /\ last.result = "invalid"
        /\ last.found # Undefined /\ last.when = "before"

\* C4 as stated: a code returned by an issue that a later issue for the
\* identity has replaced is never accepted.
C4_AsStated ==
    \A k \in Keys :
        (Verified(k) /\ last.code \in track[k].superseded) => last.result # "ok"

\* C4: a code returned by an issue that a later issue for the identity has
\* replaced is not accepted, unless the most recent issue returned the same
\* code.
C4_ReissueInvalidates ==
    \A k \in Keys :
        (/\ Verified(k)
         /\ last.code \in track[k].superseded
         /\ last.code # track[k].issued) => last.result # "ok"

\* the first code is compared with the digest of the second and rejected
C4_Witness ==
    \E k \in Keys :
        /\ Verified(k)
        /\ last.code \in track[k].superseded /\ last.code # track[k].issued
        /\ last.compared /\ last.result = "invalid"

\* C5: a verify that finds an entry after its expiresAt returns expired and
\* deletes the entry, whatever the code and whatever attemptsLeft.
C5_ExpiryDominates ==
    (last.op = "verify" /\ FoundExpired) =>
        /\ last.result = "expired"
        /\ ~MapHas(loginCodes, last.key)

\* the correct code on an exhausted entry, after the expiry
C5_Witness ==
    /\ last.op = "verify" /\ FoundExpired
    /\ last.found.attemptsLeft = 0
    /\ last.code = track[last.key].issued

\* the outcome of the last verify in the run where the identity was never
\* issued: it finds no entry, at whatever time it is made
NeverIssuedResult == verifyLoginCode({}, last.key, last.code, now).result

\* C6 as stated: a verify that is not accepted has the outcome it has when no
\* code was ever issued for the identity.
C6_AsStated ==
    (last.op = "verify" /\ last.result # "ok") => last.result = NeverIssuedResult

\* C6: a verify that is not accepted, and is not made after the expiresAt of
\* a stored entry, has the outcome it has when no code was ever issued for
\* the identity (rejected); made after the expiresAt of a stored entry it
\* returns expired, which the other run never does.
C6_NoLeakBeforeExpiry ==
    /\ (last.op = "verify" /\ last.result # "ok" /\ ~FoundExpired) =>
           /\ last.result = "invalid"
           /\ last.result = NeverIssuedResult
    /\ (last.op = "verify" /\ FoundExpired) =>
           /\ last.result = "expired"
           /\ NeverIssuedResult = "invalid"

\* a wrong code on a stored, unexpired entry is rejected
C6_Witness ==
    /\ last.op = "verify" /\ last.result = "invalid"
    /\ last.found # Undefined /\ ~FoundExpired /\ last.compared

\* C7 as stated: a verify on an entry with attemptsLeft = 0 returns rejected
\* and deletes the entry, at every time of the call.
C7_AsStated ==
    (last.op = "verify" /\ last.found # Undefined /\ last.found.attemptsLeft = 0) =>
        /\ last.result = "invalid"
        /\ ~MapHas(loginCodes, last.key)

\* C7: a verify on an entry with attemptsLeft = 0 deletes the entry for every
\* code; it returns rejected, as for an identity without entry, when made no
\* later than expiresAt, and expired when made later.
C7_ExhaustedPurged ==
    (last.op = "verify" /\ last.found # Undefined /\ last.found.attemptsLeft = 0) =>
        /\ ~MapHas(loginCodes, last.key)
        /\ last.result = (IF FoundExpired THEN "expired" ELSE NeverIssuedResult)
        /\ NeverIssuedResult = "invalid"

\* the correct code on an exhausted, unexpired entry
C7_Witness ==
    /\ last.op = "verify" /\ last.found # Undefined /\ last.found.attemptsLeft = 0
    /\ ~FoundExpired /\ last.result = "invalid"
    /\ last.code = track[last.key].issued

(***************************************************************************)
(* Properties of the routes under concurrent requests                      *)
(***************************************************************************)
\* C8: under every interleaving of the handlers no decrement is lost: every
\* mismatched comparison lowers attemptsLeft by exactly one, an exhausted
\* entry is not compared, and at most 5 mismatched codes are compared with
\* the digest of one issued code.
C8_NoLostDecrement ==
    \A k \in Keys :
        /\ track[k].compared <= 5
        /\ MapHas(loginCodes, k) =>
              MapGet(loginCodes, k).attemptsLeft = 5 - track[k].compared
        /\ (Verified(k) /\ last.compared /\ last.result = "invalid") =>
              /\ last.found.attemptsLeft >= 1
              /\ MapGet(loginCodes, k) =
                    [last.found EXCEPT !.attemptsLeft = last.found.attemptsLeft - 1]
        /\ (Verified(k) /\ last.found # Undefined /\ last.found.attemptsLeft <= 0) =>
              ~last.compared

\* a mismatched attempt takes the last unit of the budget while another
\* verify request is in flight
C8_Witness ==
    /\ \E h \in Handlers : handlers[h].pc = "verify:json"
    /\ resp.route = "verify-code" /\ resp.during = {"verify:json"}
    /\ last.op = "verify" /\ last.compared /\ last.result = "invalid"
    /\ last.found.attemptsLeft = 1
    /\ track[last.key].compared = 5

\* C9: under every interleaving of the handlers an accepted verify deletes
\* the entry it compared the code with, which is the entry of the most recent
\* issue for the identity; an entry is removed by nothing but a verify that
\* found it.
C9_AcceptDeletesComparedEntry ==
    /\ (last.op = "verify" /\ last.result = "ok") =>
          /\ last.compared
          /\ last.found =
                [codeHash |-> hashCode(last.code),
                 expiresAt |-> track[last.key].issuedAt + 10 * 60 * 1000,
                 attemptsLeft |-> 5 - track[last.key].compared]
          /\ last.code = track[last.key].issued
          /\ ~MapHas(loginCodes, last.key)
    /\ last.op = "create" =>
          MapGet(loginCodes, last.key) =
              [codeHash |-> hashCode(last.code),
               expiresAt |-> track[last.key].issuedAt + 10 * 60 * 1000,
               attemptsLeft |-> 5]

\* a verify is accepted while a request-code handler awaits the user lookup
C9_Witness ==
    /\ last.op = "verify" /\ last.result = "ok"
    /\ resp.route = "verify-code" /\ resp.status = 200
    /\ resp.during = {"request:user"}
    /\ \E h \in Handlers : handlers[h].pc = "request:user"

(***************************************************************************)
(* Properties of the store with several identities                         *)
(***************************************************************************)
\* C10: the store holds at most one entry per normalized identity, and every
\* entry has attemptsLeft in 0..5.
C10_OneEntryInBudget ==
    /\ \A p, q \in loginCodes : normalizeEmail(p.key) = normalizeEmail(q.key) => p = q
    /\ \A p \in loginCodes : p.value.attemptsLeft \in 0..5

\* two identities have an entry, one of them exhausted, and the last issue
\* replaced an entry
C10_Witness ==
    /\ Cardinality(loginCodes) = 2
    /\ \E p \in loginCodes : p.value.attemptsLeft = 0
    /\ last.op = "create" /\ last.found # Undefined

(***************************************************************************)
(* Properties of the store: identities, lifecycle of an entry              *)
(***************************************************************************)
\* two raw identities differ in nothing but letter case and surrounding
\* whitespace
SameIdentity(e1, e2) == ToLowerCase(Trim(e1)) = ToLowerCase(Trim(e2))

\* the entries of the store under a key that is a spelling of the identity
EntriesOf(m, email) == {p \in m : SameIdentity(p.key, email)}

\* C11: issue and verify key on trim(identity).toLowerCase(): issue with one
\* spelling of an identity followed by verify with another spelling and the
\* returned code, with no call in between and within the ten minutes of the
\* code, is accepted; the verify finds the entry the issue stored, which is
\* the only entry of the identity, and removes it.
C11_NormalizedIdentity ==
    [][(/\ CallStep /\ last'.op = "verify"
        /\ last.op = "create"
        /\ track'[last'.key].verifiedAs # track[last.key].issuedAs
        /\ SameIdentity(track'[last'.key].verifiedAs, track[last.key].issuedAs)
        /\ last'.code = last.code
        /\ now <= track[last.key].issuedAt + 10 * 60 * 1000)
       => /\ last'.result = "ok"
          /\ last'.key = last.key
          /\ EntriesOf(loginCodes, track[last.key].issuedAs) =
                {[key |-> ToLowerCase(Trim(track[last.key].issuedAs)),
                  value |-> last'.found]}
          /\ last'.found = [codeHash |-> hashCode(last.code),
                            expiresAt |-> track[last.key].issuedAt + 10 * 60 * 1000,
                            attemptsLeft |-> 5]
          /\ EntriesOf(loginCodes', track[last.key].issuedAs) = {}]_vars

\* a code issued under one spelling of the address is accepted under another
\* spelling, one that is not the normalized form
C11_Witness ==
    \E k \in Keys :
        /\ Verified(k) /\ last.result = "ok" /\ last.code = track[k].issued
        /\ track[k].wrong = 0
        /\ track[k].verifiedAs # track[k].issuedAs
        /\ SameIdentity(track[k].verifiedAs, track[k].issuedAs)
        /\ track[k].verifiedAs # k

\* C12: verify for an identity that has no entry returns rejected for every
\* supplied code, compares nothing and leaves the whole store as it was.
C12_UnknownIdentityRejected ==
    [][(/\ CallStep /\ last'.op = "verify"
        /\ EntriesOf(loginCodes, last'.key) = {})
       => /\ last'.result = "invalid"
          /\ last'.found = Undefined /\ ~last'.compared
          /\ loginCodes' = loginCodes]_vars

\* a code that was issued to another identity is supplied for an identity
\* without entry
C12_Witness ==
    /\ last.op = "verify" /\ last.found = Undefined /\ last.result = "invalid"
    /\ EntriesOf(loginCodes, last.key) = {}
    /\ \E p \in loginCodes : p.value.codeHash = hashCode(last.code)

\* the last call was a verify with a code that is not the code of the entry
\* it found
Mismatch == last.found # Undefined /\ last.found.codeHash # hashCode(last.code)

\* C15: after a verify call the identity has an entry exactly when the call
\* found an entry that was not expired and had attemptsLeft >= 1, and the
\* code did not match; a verify that returns accepted, that returns expired,
\* or that finds attemptsLeft <= 0 leaves no entry for the identity.
C15_EntryLifecycle ==
    last.op = "verify" =>
        /\ EntriesOf(loginCodes, last.key) # {} <=>
               /\ Mismatch
               /\ last.found.attemptsLeft >= 1
               /\ ~FoundExpired
        /\ last.result \in {"ok", "expired"} => EntriesOf(loginCodes, last.key) = {}
        /\ (last.found # Undefined /\ last.found.attemptsLeft <= 0) =>
               EntriesOf(loginCodes, last.key) = {}

\* the fifth mismatch leaves the entry in the store, with no attempt left
C15_Witness ==
    /\ last.op = "verify" /\ Mismatch /\ ~FoundExpired
    /\ last.found.attemptsLeft = 1
    /\ EntriesOf(loginCodes, last.key) # {}
    /\ MapGet(loginCodes, last.key).attemptsLeft = 0

\* C16: a mismatched verify on an unexpired entry with attemptsLeft = n >= 1
\* returns rejected and leaves the entry with attemptsLeft = n - 1 and the
\* same codeHash and expiresAt; an entry of the store changes or appears in
\* no other way than by such a verify, which lowers attemptsLeft by one, or
\* by an issue, which sets it to 5.
C16_OnlyMismatchDecrements ==
    /\ []((last.op = "verify" /\ Mismatch /\ ~FoundExpired /\ last.found.attemptsLeft >= 1)
          => /\ last.result = "invalid"
             /\ MapGet(loginCodes, last.key) =
                   [codeHash |-> last.found.codeHash,
                    expiresAt |-> last.found.expiresAt,
                    attemptsLeft |-> last.found.attemptsLeft - 1])
    /\ [][\A k \in Keys :
             LET before == MapGet(loginCodes, k)
                 after == MapGet(loginCodes', k)
             IN  (after # Undefined /\ after # before) =>
                    \/ /\ last'.op = "verify" /\ last'.key = k /\ last'.result = "invalid"
                       /\ before # Undefined /\ last'.found = before
                       /\ before.codeHash # hashCode(last'.code)
                       /\ before.attemptsLeft >= 1 /\ now <= before.expiresAt
                       /\ after = [before EXCEPT !.attemptsLeft = @ - 1]
                    \/ /\ last'.op = "create" /\ last'.key = k
                       /\ after.attemptsLeft = 5]_vars

\* a second mismatch, at the last instant of the entry, takes it from 4 to 3
C16_Witness ==
    /\ last.op = "verify" /\ Mismatch /\ last.when = "at" /\ last.result = "invalid"
    /\ last.found.attemptsLeft = 4
    /\ MapGet(loginCodes, last.key) = [last.found EXCEPT !.attemptsLeft = 3]

\* C17: the issued code survives up to 4 wrong guesses: when the calls for an
\* identity since its last issue are at most 4 verify calls with other codes,
\* a verify with the issued code made no later than the expiry instant is
\* accepted.
C17_SurvivesFourWrong ==
    [][\A k \in Keys :
          (/\ VerifyStep(k)
           /\ track[k].issued # <<>> /\ last'.code = track[k].issued
           /\ track[k].wrong <= 4 /\ track[k].accepts = 0
           /\ now <= track[k].issuedAt + 10 * 60 * 1000)
          => last'.result = "ok"]_vars

\* after 4 wrong guesses the issued code is accepted at the expiry instant
C17_Witness ==
    \E k \in Keys :
        /\ Verified(k) /\ last.code = track[k].issued /\ last.result = "ok"
        /\ track[k].wrong = 4
        /\ last.found.attemptsLeft = 1
        /\ now = track[k].issuedAt + 10 * 60 * 1000

\* the entries of the store under the keys of the other identities
OthersOf(m, email) == {p \in m : ~SameIdentity(p.key, email)}

\* C18: issue(a) and verify(a, c) leave the entry of every identity b with
\* normalize(b) # normalize(a) as it was: present or absent, and with the same
\* codeHash, expiresAt and attemptsLeft; the store changes in no other step.
C18_OtherIdentitiesUntouched ==
    [][/\ CallStep => OthersOf(loginCodes', last'.key) = OthersOf(loginCodes, last'.key)
       /\ loginCodes' # loginCodes => CallStep /\ last'.op \in {"create", "verify"}]_vars

\* the code of one identity is accepted and its entry removed, while another
\* identity keeps an entry that has lost two attempts
C18_Witness ==
    /\ last.op = "verify" /\ last.result = "ok"
    /\ EntriesOf(loginCodes, last.key) = {}
    /\ \E p \in OthersOf(loginCodes, last.key) : p.value.attemptsLeft = 3

\* C20: expiry is lazy: a step in which time passes changes no entry; an
\* entry whose expiresAt has passed stays in the store as it is in every step
\* but a verify for its identity, which reports it expired and deletes it, and
\* an issue for its identity, which puts a fresh entry in its place.
C20_LazyExpiry ==
    [][/\ now' # now => loginCodes' = loginCodes
       /\ \A p \in loginCodes :
             now > p.value.expiresAt =>
                \/ p \in loginCodes'
                \/ /\ CallStep /\ last'.op = "verify" /\ last'.key = p.key
                   /\ last'.found = p.value /\ last'.result = "expired"
                   /\ EntriesOf(loginCodes', p.key) = {}
                \/ /\ CallStep /\ last'.op = "create" /\ last'.key = p.key
                   /\ last'.found = p.value
                   /\ EntriesOf(loginCodes', p.key) =
                         {[key |-> p.key,
                           value |-> [codeHash |-> hashCode(last'.code),
                                      expiresAt |-> now + 10 * 60 * 1000,
                                      attemptsLeft |-> 5]]}]_vars

\* an entry whose expiresAt has passed is in the store, untouched, after a
\* call for another identity
C20_Witness ==
    \E p \in loginCodes :
        /\ now > p.value.expiresAt /\ p.value.attemptsLeft = 5
        /\ last.op = "verify" /\ last.key # p.key /\ last.when = "after"

\* C21: expired is reported at most once per issue: after a verify for an
\* identity has returned expired the identity has no entry, and every later
\* verify for it returns rejected until the next issue for it.
C21_ExpiredOnce ==
    \A k \in Keys :
        /\ track[k].expired <= 1
        /\ track[k].expired = 1 =>
              /\ EntriesOf(loginCodes, k) = {}
              /\ Verified(k) =>
                    \/ last.result = "expired" /\ last.found # Undefined
                    \/ last.result = "invalid" /\ last.found = Undefined

\* the issued code, reported expired once, is supplied again and rejected
C21_Witness ==
    \E k \in Keys :
        /\ track[k].expired = 1
        /\ Verified(k) /\ last.code = track[k].issued
        /\ last.result = "invalid" /\ last.found = Undefined

\* C22: the entry of an issue made at time t has expiresAt = t + 10 minutes; a
\* verify that finds the entry of the last issue with attempts left and
\* carries its code is accepted at t + 10 minutes exactly, and a verify that
\* finds the entry at any later instant returns expired.
C22_ExpiryBoundary ==
    \A k \in Keys :
        /\ MapHas(loginCodes, k) =>
              MapGet(loginCodes, k).expiresAt = track[k].issuedAt + 10 * 60 * 1000
        /\ (Verified(k) /\ last.found # Undefined) =>
              /\ last.found.expiresAt = track[k].issuedAt + 10 * 60 * 1000
              /\ (/\ last.when = "at"
                  /\ last.found.attemptsLeft >= 1
                  /\ last.code = track[k].issued) => last.result = "ok"
              /\ last.when = "after" => last.result = "expired"

\* a code issued at the first millisecond is accepted ten minutes later to
\* the millisecond, from an entry that has lost attempts
C22_Witness ==
    \E k \in Keys :
        /\ Verified(k) /\ last.result = "ok"
        /\ track[k].issuedAt = 1 /\ last.when = "at"
        /\ last.found.expiresAt = 1 + 10 * 60 * 1000
        /\ last.found.attemptsLeft = 3

(***************************************************************************)
(* Properties of the request-code route                                    *)
(***************************************************************************)
\* the User table has a row for the email that is active and may submit
Authorized(email) ==
    \E u \in Users : u.email = email /\ u.active /\ u.canSubmitTimesheet

\* in this step the handler h answers a request for a code
RequestEnds(h) ==
    /\ resp'.route = "request-code"
    /\ \/ handlers[h].pc \in {"request:json", "request:user"} /\ handlers'[h].pc = "idle"
       \/ /\ handlers[h].pc = "idle" /\ handlers'[h].pc = "idle"
          /\ SmtpIncomplete(env) /\ <<handlers, resp>>' # <<handlers, resp>>

\* the responses of the handler that precede its call of createLoginCode
EarlyErrors ==
    { [status |-> 500, message |-> "Email configuration error."],
      [status |-> 400, message |-> "Invalid JSON payload."],
      [status |-> 500, message |-> "Internal Server Error"],
      [status |-> 400, message |-> "A valid email is required."],
      [status |-> 403, message |-> NotRegistered] }

\* C13: the request-code handler calls createLoginCode only for the email of a
\* user that exists, is active and has canSubmitTimesheet, so the store holds
\* entries of such users only; a request answered with an error before that
\* call (incomplete SMTP configuration, invalid JSON, invalid email,
\* unauthorized user with status 403) leaves the store as it was.
C13_IssuanceGated ==
    /\ [](/\ last.op = "create" => Authorized(last.key)
          /\ \A p \in loginCodes : Authorized(p.key))
    /\ [][/\ (CallStep /\ last'.op = "create") =>
                 \E h \in Handlers : /\ handlers[h].pc = "request:user"
                                     /\ handlers'[h].pc = "idle"
                                     /\ Authorized(handlers[h].email)
                                     /\ last'.key = ToLowerCase(Trim(handlers[h].email))
          /\ \A h \in Handlers :
                 (/\ RequestEnds(h)
                  /\ [status |-> resp'.status, message |-> resp'.message] \in EarlyErrors)
                 => /\ loginCodes' = loginCodes
                    /\ last' = last]_vars

\* a request for an address that may not log in is answered 403 and the
\* entry of an authorized address stays in the store
C13_Witness ==
    /\ resp.route = "request-code" /\ resp.status = 403
    /\ last.op = "create" /\ Authorized(last.key)
    /\ MapHas(loginCodes, last.key)

\* the response of the catch block around sendMail
SendFailed(r) ==
    r.route = "request-code" /\ r.message = "Failed to send login code email."

\* C14: when sending the mail fails, the request-code handler answers with
\* status 500 and the entry createLoginCode made for the address is in the
\* store as it was made: the failure rolls nothing back, and every other
\* entry is as before.
C14_NoRollback ==
    [][\A h \in Handlers :
          (/\ handlers[h].pc = "request:user" /\ handlers'[h].pc = "idle"
           /\ SendFailed(resp'))
          => /\ resp'.status = 500
             /\ last'.op = "create" /\ last'.key = ToLowerCase(Trim(handlers[h].email))
             /\ \E r \in RandomOffsets :
                   loginCodes' = createLoginCode(loginCodes, handlers[h].email, r, now).loginCodes
             /\ MapGet(loginCodes', last'.key) =
                   [codeHash |-> hashCode(last'.code),
                    expiresAt |-> now + 10 * 60 * 1000,
                    attemptsLeft |-> 5]
             /\ \A p \in loginCodes : p.key # last'.key => p \in loginCodes']_vars

\* the request is answered 500 while a verify request is in flight, and the
\* entry it created is in the store, in the place of an older entry
C14_Witness ==
    /\ SendFailed(resp) /\ resp.status = 500 /\ resp.during = {"verify:json"}
    /\ last.op = "create" /\ last.found # Undefined
    /\ MapGet(loginCodes, last.key) =
          [codeHash |-> hashCode(last.code),
           expiresAt |-> track[last.key].issuedAt + 10 * 60 * 1000,
           attemptsLeft |-> 5]

\* String.prototype.includes
IncludesString(s, sub) ==
    \E i \in 0..(Len(s) - Len(sub)) : SubSeq(s, i + 1, i + Len(sub)) = sub

\* in this step the handler h ends a request for the email of an authorized
\* user, under a complete SMTP configuration and with a transport that
\* accepts every message handed to it
ServedAuthorized(h) ==
    /\ ~SmtpIncomplete(env)
    /\ handlers[h].pc = "request:user" /\ Authorized(handlers[h].email)
    /\ \E r \in RandomOffsets : RequestUser(h, r, "accepts")

\* C19 as stated: when the SMTP configuration is complete, the body carries
\* the email of an authorized user and the transport accepts the message, the
\* request-code handler creates an entry for the email, sends one mail that
\* contains the issued code, and responds with success.
C19_AsStated ==
    [][\A h \in Handlers :
          ServedAuthorized(h) =>
              /\ resp'.status = 200
              /\ last'.op = "create" /\ MapHas(loginCodes', handlers[h].email)
              /\ Len(resp'.sent) = 1
              /\ resp'.sent[1].to = handlers[h].email
              /\ ~resp'.sent[1].text.thrown
              /\ IncludesString(resp'.sent[1].text.text, last'.code)]_vars

\* C19, what the handler does: under a complete SMTP configuration, for the
\* email of an authorized user and whatever the transport would do, it creates
\* the entry, hands no mail to the transport and answers with status 500,
\* "Failed to send login code email."
C19_NeverSends ==
    [][\A h \in Handlers :
          ServedAuthorized(h) =>
              /\ resp'.status = 500 /\ SendFailed(resp')
              /\ resp'.sent = <<>>
              /\ last'.op = "create"
              /\ MapGet(loginCodes', handlers[h].email) =
                    [codeHash |-> hashCode(last'.code),
                     expiresAt |-> now + 10 * 60 * 1000,
                     attemptsLeft |-> 5]]_vars

\* the request of an authorized user has been answered 500 with no mail
\* handed to the transport, and the entry it created is in the store
C19_Witness ==
    /\ env = CompleteEnv
    /\ SendFailed(resp) /\ resp.status = 500 /\ resp.sent = <<>>
    /\ last.op = "create" /\ Authorized(last.key)
    /\ MapHas(loginCodes, last.key)

(***************************************************************************)
(* Properties of the verify-code route                                     *)
(***************************************************************************)
\* a field of the parsed body; null carries no field
Field(body, f) == IF body = NullJson THEN None ELSE body[f]

\* the email or the code of the parsed body is missing, or empty when trimmed
Incomplete(body) ==
    \/ Field(body, "email") = None
    \/ Field(body, "code") = None
    \/ Trim(Field(body, "email")[1]) = <<>>
    \/ Trim(Field(body, "code")[1]) = <<>>

\* the handler answers a complete body: it has called verifyLoginCode with the
\* trimmed email and the trimmed code, once, and answers with success exactly
\* when the call returned ok
AnswersVerify(body) ==
    LET email == Trim(body.email[1])
        code == Trim(body.code[1])
        out == verifyLoginCode(loginCodes, email, code, now)
    IN  /\ last'.op = "verify" /\ last'.code = code
        /\ last'.key = ToLowerCase(Trim(email))
        /\ last'.result = out.result
        /\ loginCodes' = out.loginCodes
        /\ resp'.status = 200 <=> out.result = "ok"
        /\ resp'.status # 200 => resp'.status = 400

\* C23 as stated: the verify-code handler responds with success exactly when
\* verifyLoginCode returns ok for the trimmed email and the trimmed code; a
\* request whose body is not JSON, or whose email or code is missing or empty
\* when trimmed, is answered with status 400 without a call of
\* verifyLoginCode: it takes no attempt and changes no entry.
C23_AsStated ==
    [][\A h \in Handlers, body \in VerifyBodies :
          VerifyParsed(h, body) =>
              IF ~body.json \/ Incomplete(body)
              THEN /\ resp'.status = 400
                   /\ UNCHANGED <<loginCodes, last, track>>
              ELSE AnswersVerify(body)]_vars

\* C23, what the handler does: as stated, but for the body null, which carries
\* neither email nor code: reading its email throws, and the request is
\* answered with status 500; it too is served without a call of
\* verifyLoginCode.
C23_NullBodyCrashes ==
    [][\A h \in Handlers, body \in VerifyBodies :
          VerifyParsed(h, body) =>
              IF ~body.json \/ Incomplete(body)
              THEN /\ resp'.status = (IF body = NullJson THEN 500 ELSE 400)
                   /\ UNCHANGED <<loginCodes, last, track>>
              ELSE AnswersVerify(body)]_vars

\* a verify request with the body null has been answered with status 500,
\* and the entry in the store, which has lost one attempt, is as it was
C23_Witness ==
    /\ resp.route = "verify-code" /\ resp.status = 500
    /\ last.op = "verify" /\ last.compared /\ last.result = "invalid"
    /\ MapHas(loginCodes, last.key)
    /\ MapGet(loginCodes, last.key) = [last.found EXCEPT !.attemptsLeft = 4]

====
